---- MODULE Spec2Model ----
(***************************************************************************)
(* MatchTal profile-service: the access checks of the profile and resume   *)
(* routes and the maintenance of the primary-resume flag, over the two     *)
(* MongoDB collections candidate_profiles and resume_metadata.             *)
(*                                                                         *)
(* A request is a sequence of storage steps (the awaits of its handler);   *)
(* steps of different requests interleave.  Spec lets NumReq requests be   *)
(* in flight at once; SeqSpec runs one request at a time to completion.    *)
(***************************************************************************)
EXTENDS Integers, Sequences, FiniteSets, TLC

\* ------------------------------------------------------------- bounds
\* users that hold tokens; organizations; distinct s3Key values a client may
\* supply (the unique indexes on userId and s3Key then bound both collections);
\* requests that may be in flight at once under Spec
NumUsers == 2
NumOrgs == 2
NumS3Keys == 1
NumReq == 2

VARIABLES
    profiles,   \* collection candidate_profiles: sequence of documents, _id = index
    resumes,    \* collection resume_metadata: sequence of documents, _id = index
    inflight,   \* per request slot: where the handler is and what it holds
    out,        \* what the step just taken decided or answered
    request     \* what the client sent, on the step that received it

vars == <<profiles, resumes, inflight, out, request>>

\* ------------------------------------------------- ids and id strings
\* An ObjectId is a 12-byte value, here a positive number; 0 stands for None.
\* An id string is what a client or a token carries: 24 hex digits in lower
\* or upper case, or text that is no ObjectId at all.
NoneId == 0

IdStr(o, f) == [hex |-> o, form |-> f]

NoneStr == IdStr(0, "none")

BadStr == IdStr(0, "invalid")

\* bson.ObjectId.is_valid
IsValid(s) == s.form \in {"lower", "upper"}

\* bson.ObjectId(s): the bytes the hex digits denote, whatever their case
ObjectId(s) == s.hex

\* str(ObjectId): always lower-case hex
Str(o) == IdStr(o, "lower")

Users == 1..NumUsers

Orgs == 1..NumOrgs

\* ------------------------------------------------------------ identity
NoRole == "<missing>"

Roles == {"candidate", "recruiter", "employer_admin", "auditor", NoRole}

\* get_current_user: the identity is the token's claims; the auth service
\* issues sub and organizationId as str(ObjectId).
Identities ==
    [sub : {Str(u) : u \in Users},
     role : Roles,
     organizationId : {NoneStr} \cup {Str(o) : o \in Orgs}]

NoIdentity == [sub |-> NoneStr, role |-> NoRole, organizationId |-> NoneStr]

\* check_organization_access(current_user, requested_org_id)
check_organization_access(current_user, requested_org_id) ==
    LET user_role == current_user.role
        user_org_id == current_user.organizationId
    IN  IF user_role = "candidate" THEN TRUE
        ELSE IF user_role \in {"employer_admin", "recruiter"}
             THEN ~(requested_org_id # NoneStr /\ user_org_id # requested_org_id)
             ELSE FALSE

\* --------------------------------------------------------- credentials
JWT_ALGORITHM == "HS256"

Issuer == "matchtal-auth-service"

Audience == "matchtal-platform"

Absent == "<absent>"

\* The Authorization header of a request: its scheme and, for a bearer
\* credential, the token: whether it is a JWT at all, the key and algorithm
\* it is signed with, and its claims.  Token(who) is the access token the
\* auth service issues to who.
Token(who) ==
    [scheme |-> "Bearer", jwt |-> TRUE, key |-> "JWT_SECRET_KEY",
     alg |-> JWT_ALGORITHM, exp |-> "future", iss |-> Issuer, aud |-> Audience,
     type |-> "access", sub |-> who.sub, userId |-> NoneStr, role |-> who.role,
     organizationId |-> who.organizationId]

\* A request without Authorization header
NoCredentials == [Token(NoIdentity) EXCEPT !.scheme = Absent]

\* Token(who) and the credentials that differ from it in one respect
Credentials(who) ==
    LET t == Token(who) IN
    {t, NoCredentials,
     [t EXCEPT !.scheme = "Basic"],
     [t EXCEPT !.jwt = FALSE],
     [t EXCEPT !.key = "other"],
     [t EXCEPT !.alg = "HS512"],
     [t EXCEPT !.exp = "past"],
     [t EXCEPT !.exp = Absent],
     [t EXCEPT !.iss = "other"],
     [t EXCEPT !.iss = Absent],
     [t EXCEPT !.aud = "other"],
     [t EXCEPT !.aud = Absent],
     [t EXCEPT !.type = "refresh"],
     [t EXCEPT !.type = Absent],
     [t EXCEPT !.sub = NoneStr],
     [t EXCEPT !.sub = NoneStr, !.userId = who.sub]}

\* security = HTTPBearer(): TRUE when the header carries a bearer credential;
\* otherwise the dependency answers 403 itself
security(credentials) == credentials.scheme = "Bearer"

\* jose.jwt.decode(token, key, algorithms=[alg], issuer=, audience=): TRUE
\* when it returns the claims.  exp is checked when the token has one; iss
\* must be the issuer; aud is checked when the token has one.
jwt_decode(token) ==
    /\ token.jwt
    /\ token.key = "JWT_SECRET_KEY"
    /\ token.alg = JWT_ALGORITHM
    /\ token.exp # "past"
    /\ token.iss = Issuer
    /\ token.aud \in {Absent, Audience}

\* verify_token: TRUE when it returns the payload, FALSE when it raises
verify_token(token) == jwt_decode(token) /\ token.type = "access"

\* get_current_user: the identity, NoIdentity when it raises 401
get_current_user(credentials) ==
    LET user_id == IF credentials.sub # NoneStr THEN credentials.sub
                   ELSE credentials.userId
    IN  IF ~verify_token(credentials) \/ user_id = NoneStr
        THEN NoIdentity
        ELSE [sub |-> user_id, role |-> credentials.role,
              organizationId |-> credentials.organizationId]

\* What the client sent: the credentials and the id its path or body names
\* experience is the work history in the body of the request, <<>> when the
\* body has none
Request(credentials, id) ==
    [sent |-> TRUE, credentials |-> credentials, id |-> id, experience |-> <<>>]

NoRequest ==
    [sent |-> FALSE, credentials |-> NoCredentials, id |-> NoneStr,
     experience |-> <<>>]

\* ------------------------------------------------------------ outcomes
\* What one step decided or answered.  status is the HTTP status of the
\* response, 0 while the request goes on; granted is "yes"/"no" on the step
\* that took the access decision and "-" on any other.  pre, marks and
\* overlap are history: the profile's active primary resumes when the request
\* began (kept in the runs that ask for it), whether the request asked for
\* isPrimary = true, and the resumes that concurrent requests marked primary
\* while this one was in flight.
Out(op, who, status, granted, profile, resume) ==
    [op |-> op, who |-> who, status |-> status, granted |-> granted,
     profile |-> profile, resume |-> resume, listed |-> <<>>,
     pre |-> {}, marks |-> FALSE, overlap |-> {}]

NoOut == Out("none", NoIdentity, 0, "-", NoneId, NoneId)

Idle ==
    [pc |-> "idle", op |-> "none", profile |-> NoneId, resume |-> NoneId,
     doc |-> <<>>, pre |-> {}, marks |-> FALSE, overlap |-> {}]

\* Steps are taken one at a time: the outcome of a step is delivered (Deliver)
\* before the next step is taken.
Ready == out = NoOut

\* ------------------------------------------------------ profile fields
\* location is text (a sequence of characters), <<>> when absent; skills is
\* a set of words.
LowerChar(c) ==
    CASE c = "N" -> "n" [] c = "Y" -> "y" [] c = "G" -> "g" [] c = "O" -> "o"
      [] OTHER -> c

\* {"$regex": pattern, "$options": "i"}: the pattern occurs in the text,
\* letter case ignored
RegexMatch(pattern, text) ==
    \E i \in 0..(Len(text) - Len(pattern)) :
        \A j \in 1..Len(pattern) : LowerChar(text[i + j]) = LowerChar(pattern[j])

Unset == "<unset>"

UnsetText == <<Unset>>

UnsetWords == {Unset}

\* A date is text as well; the endDate of an entry is NoneDate when the client
\* gave none (Optional[str] = None)
None == "<none>"

NoneDate == <<None>>

\* ord(c) of the characters the dates are written with
ord(c) ==
    CASE c = "-" -> 45 [] c = "0" -> 48 [] c = "1" -> 49 [] c = "2" -> 50
      [] c = "5" -> 53

\* a < b on str: the code points at the first position where the two differ
\* decide, and a proper prefix is smaller
RECURSIVE StrLess(_, _)
StrLess(a, b) ==
    IF b = <<>> THEN FALSE
    ELSE IF a = <<>> THEN TRUE
    ELSE IF Head(a) # Head(b) THEN ord(Head(a)) < ord(Head(b))
    ELSE StrLess(Tail(a), Tail(b))

\* validate_end_date with the comparison turned round (v > start_date)
validate_end_date_Reversed(v, start_date) ==
    IF v = NoneDate THEN TRUE
    ELSE IF start_date # <<>> /\ StrLess(start_date, v) THEN FALSE
    ELSE TRUE

\* Experience.validate_end_date: TRUE when it returns v, FALSE when it raises
validate_end_date(v, start_date) ==
    IF v = NoneDate THEN TRUE
    ELSE IF start_date # <<>> /\ StrLess(v, start_date) THEN FALSE
    ELSE TRUE

\* Experience(**entry) validates: startDate is any str, endDate is checked
\* against it (company, position and the other fields are left out)
Experience(entry) == validate_end_date(entry.endDate, entry.startDate)

\* The value of experience in an update that does not set it
UnsetExperience == <<[startDate |-> UnsetText, endDate |-> UnsetText]>>

\* List[Experience] validates when every entry does
ExperienceList(experience) ==
    \A k \in 1..Len(experience) : Experience(experience[k])

\* ProfileCreate validates the body of POST /profiles
ProfileCreate(body) == ExperienceList(body.experience)

\* The bodies of POST /profiles without work history
ProfileBodies ==
    {[location |-> <<>>, skills |-> {}, experience |-> <<>>],
     [location |-> <<"N", "Y">>, skills |-> {"go"}, experience |-> <<>>]}

\* The bodies of PUT /profiles/{profile_id}: the fields the client set, with
\* userId and organizationId when the client sent these keys too
ProfileUpdates ==
    {[location |-> UnsetText, skills |-> UnsetWords, experience |-> UnsetExperience,
      userId |-> NoneStr, organizationId |-> NoneStr],
     [location |-> <<"N", "Y">>, skills |-> {"go"}, experience |-> UnsetExperience,
      userId |-> NoneStr, organizationId |-> NoneStr],
     [location |-> UnsetText, skills |-> UnsetWords, experience |-> <<>>,
      userId |-> Str(2), organizationId |-> Str(2)]}

\* ProfileUpdate validates the body of PUT /profiles/{profile_id}
ProfileUpdate(body) ==
    body.experience # UnsetExperience => ExperienceList(body.experience)

UserIdStrs == {IdStr(u, f) : u \in Users, f \in {"lower", "upper"}}

OrgIdStrs == {Str(o) : o \in Orgs}

ProfileIdStrs == {Str(i) : i \in 1..NumUsers} \cup {BadStr}

\* find_one({"_id": ObjectId(profile_id)})
ProfileExists(oid) == oid \in 1..Len(profiles)

\* find_one({"userId": oid}): the _id of a profile of that user, 0 if none
ProfileOfUser(oid) ==
    IF \E i \in 1..Len(profiles) : profiles[i].userId = oid
    THEN CHOOSE i \in 1..Len(profiles) : profiles[i].userId = oid
    ELSE NoneId

\* str(profile_org_id) if profile_org_id else None
OrgStrOf(profile) ==
    IF profile.organizationId # NoneId THEN Str(profile.organizationId) ELSE NoneStr

\* The access check shared by get_profile, update_profile (user_id is
\* str(current_user["_id"]), compared with str(profile.get("userId")))
ProfileAccess(who, profile) ==
    IF who.role = "candidate"
    THEN who.sub = Str(profile.userId)
    ELSE check_organization_access(who, OrgStrOf(profile))

Finish(r, o) ==
    /\ inflight' = [inflight EXCEPT ![r] = Idle]
    /\ out' = o

\* --------------------------------------------------- POST /profiles
\* create_profile without the comparison of the supplied userId with the
\* token's subject
create_profile_NoSubjectCheck(r, who, userId, organizationId, body) ==
    /\ UNCHANGED <<profiles, resumes>>
    /\ IF who.role # "candidate"
       THEN Finish(r, Out("create_profile", who, 403, "no", NoneId, NoneId))
       ELSE IF ~IsValid(userId)
       THEN Finish(r, Out("create_profile", who, 500, "yes", NoneId, NoneId))
       ELSE IF ProfileOfUser(ObjectId(userId)) # NoneId
       THEN Finish(r, Out("create_profile", who, 400, "yes",
                          ProfileOfUser(ObjectId(userId)), NoneId))
       ELSE IF organizationId # NoneStr /\ ~IsValid(organizationId)
       THEN Finish(r, Out("create_profile", who, 500, "yes", NoneId, NoneId))
       ELSE /\ inflight' = [inflight EXCEPT ![r] =
                    [Idle EXCEPT !.pc = "insert_profile", !.op = "create_profile",
                        !.doc = [userId |-> ObjectId(userId),
                                 organizationId |->
                                    IF organizationId # NoneStr
                                    THEN ObjectId(organizationId) ELSE NoneId,
                                 isActive |-> TRUE,
                                 location |-> body.location,
                                 skills |-> body.skills,
                                 experience |-> body.experience]]]
            /\ out' = Out("create_profile", who, 0, "yes", NoneId, NoneId)

\* create_profile without the check of the caller's role
create_profile_NoRoleCheck(r, who, userId, organizationId, body) ==
    /\ UNCHANGED <<profiles, resumes>>
    /\ IF who.sub # userId
       THEN Finish(r, Out("create_profile", who, 403, "no", NoneId, NoneId))
       ELSE IF ProfileOfUser(ObjectId(userId)) # NoneId
       THEN Finish(r, Out("create_profile", who, 400, "yes",
                          ProfileOfUser(ObjectId(userId)), NoneId))
       ELSE IF organizationId # NoneStr /\ ~IsValid(organizationId)
       THEN Finish(r, Out("create_profile", who, 500, "yes", NoneId, NoneId))
       ELSE /\ inflight' = [inflight EXCEPT ![r] =
                    [Idle EXCEPT !.pc = "insert_profile", !.op = "create_profile",
                        !.doc = [userId |-> ObjectId(userId),
                                 organizationId |->
                                    IF organizationId # NoneStr
                                    THEN ObjectId(organizationId) ELSE NoneId,
                                 isActive |-> TRUE,
                                 location |-> body.location,
                                 skills |-> body.skills,
                                 experience |-> body.experience]]]
            /\ out' = Out("create_profile", who, 0, "yes", NoneId, NoneId)

create_profile(r, who, userId, organizationId, body) ==
    /\ UNCHANGED <<profiles, resumes>>
    /\ IF who.role # "candidate"
       THEN Finish(r, Out("create_profile", who, 403, "no", NoneId, NoneId))
       ELSE IF who.sub # userId
       THEN Finish(r, Out("create_profile", who, 403, "no", NoneId, NoneId))
       ELSE IF ProfileOfUser(ObjectId(userId)) # NoneId
       THEN Finish(r, Out("create_profile", who, 400, "yes",
                          ProfileOfUser(ObjectId(userId)), NoneId))
       ELSE IF organizationId # NoneStr /\ ~IsValid(organizationId)
       THEN \* ObjectId(profile_data.organizationId) raises InvalidId
            Finish(r, Out("create_profile", who, 500, "yes", NoneId, NoneId))
       ELSE /\ inflight' = [inflight EXCEPT ![r] =
                    [Idle EXCEPT !.pc = "insert_profile", !.op = "create_profile",
                        !.doc = [userId |-> ObjectId(userId),
                                 organizationId |->
                                    IF organizationId # NoneStr
                                    THEN ObjectId(organizationId) ELSE NoneId,
                                 isActive |-> TRUE,
                                 location |-> body.location,
                                 skills |-> body.skills,
                                 experience |-> body.experience]]]
            /\ out' = Out("create_profile", who, 0, "yes", NoneId, NoneId)

\* insert_one into a collection whose userId index was created without
\* unique=True: the insert always succeeds
create_profile_insert_NoUniqueIndex(r) ==
    /\ Ready
    /\ request' = NoRequest
    /\ inflight[r].pc = "insert_profile"
    /\ UNCHANGED resumes
    /\ profiles' = Append(profiles, inflight[r].doc)
    /\ Finish(r, Out("create_profile", NoIdentity, 201, "-", Len(profiles) + 1, NoneId))

\* insert_one under the unique index on userId (create_indexes)
create_profile_insert(r) ==
    /\ Ready
    /\ request' = NoRequest
    /\ inflight[r].pc = "insert_profile"
    /\ UNCHANGED resumes
    /\ IF ProfileOfUser(inflight[r].doc.userId) # NoneId
       THEN \* DuplicateKeyError, not handled: 500
            /\ UNCHANGED profiles
            /\ Finish(r, Out("create_profile", NoIdentity, 500, "-",
                             ProfileOfUser(inflight[r].doc.userId), NoneId))
       ELSE /\ profiles' = Append(profiles, inflight[r].doc)
            /\ Finish(r, Out("create_profile", NoIdentity, 201, "-",
                             Len(profiles) + 1, NoneId))

\* --------------------------------------------- GET /profiles/{profile_id}
get_profile(r, who, profile_id) ==
    /\ UNCHANGED <<profiles, resumes>>
    /\ IF ~IsValid(profile_id)
       THEN Finish(r, Out("get_profile", who, 400, "-", NoneId, NoneId))
       ELSE IF ~ProfileExists(ObjectId(profile_id))
       THEN Finish(r, Out("get_profile", who, 404, "-", NoneId, NoneId))
       ELSE IF ~ProfileAccess(who, profiles[ObjectId(profile_id)])
       THEN Finish(r, Out("get_profile", who, 403, "no", ObjectId(profile_id), NoneId))
       ELSE Finish(r, [Out("get_profile", who, 200, "yes", ObjectId(profile_id), NoneId)
                        EXCEPT !.listed = <<ObjectId(profile_id)>>])

\* ------------------------------------------ GET /profiles/user/{user_id}
get_profile_by_user_id(r, who, user_id) ==
    /\ UNCHANGED <<profiles, resumes>>
    /\ IF ~IsValid(user_id)
       THEN Finish(r, Out("get_profile_by_user_id", who, 400, "-", NoneId, NoneId))
       ELSE LET p == ProfileOfUser(ObjectId(user_id)) IN
       IF p = NoneId
       THEN Finish(r, Out("get_profile_by_user_id", who, 404, "-", NoneId, NoneId))
       ELSE IF who.role = "candidate" /\ who.sub # user_id
       THEN Finish(r, Out("get_profile_by_user_id", who, 403, "no", p, NoneId))
       ELSE IF who.role # "candidate"
                /\ ~check_organization_access(who, OrgStrOf(profiles[p]))
       THEN Finish(r, Out("get_profile_by_user_id", who, 403, "no", p, NoneId))
       ELSE Finish(r, [Out("get_profile_by_user_id", who, 200, "yes", p, NoneId)
                        EXCEPT !.listed = <<p>>])

\* --------------------------------------------- PUT /profiles/{profile_id}
\* profile_update.model_dump(exclude_unset=True) of a body parsed into a model
\* that keeps the keys it does not declare (extra = "allow")
model_dump_ExtraAllowed(profile_update) == profile_update

\* profile_update.model_dump(exclude_unset=True): the fields ProfileUpdate
\* declares; keys of the body it does not declare were dropped on parsing
model_dump(profile_update) ==
    [location |-> profile_update.location, skills |-> profile_update.skills,
     experience |-> profile_update.experience]

\* {"$set": update_data} on the profile: every key of update_data that is set
ApplyProfileUpdate(profile, update_data) ==
    [profile EXCEPT
        !.location = IF update_data.location = UnsetText THEN @
                     ELSE update_data.location,
        !.skills = IF update_data.skills = UnsetWords THEN @ ELSE update_data.skills,
        !.experience = IF update_data.experience = UnsetExperience THEN @
                       ELSE update_data.experience,
        !.userId = IF "userId" \in DOMAIN update_data
                        /\ update_data.userId # NoneStr
                   THEN ObjectId(update_data.userId) ELSE @,
        !.organizationId = IF "organizationId" \in DOMAIN update_data
                                /\ update_data.organizationId # NoneStr
                           THEN ObjectId(update_data.organizationId) ELSE @]

update_profile(r, who, profile_id, profile_update) ==
    /\ UNCHANGED resumes
    /\ IF ~IsValid(profile_id)
       THEN /\ UNCHANGED profiles
            /\ Finish(r, Out("update_profile", who, 400, "-", NoneId, NoneId))
       ELSE IF ~ProfileExists(ObjectId(profile_id))
       THEN /\ UNCHANGED profiles
            /\ Finish(r, Out("update_profile", who, 404, "-", NoneId, NoneId))
       ELSE IF ~ProfileAccess(who, profiles[ObjectId(profile_id)])
       THEN /\ UNCHANGED profiles
            /\ Finish(r, Out("update_profile", who, 403, "no",
                             ObjectId(profile_id), NoneId))
       ELSE /\ profiles' = [profiles EXCEPT ![ObjectId(profile_id)] =
                                ApplyProfileUpdate(@, model_dump(profile_update))]
            /\ Finish(r, [Out("update_profile", who, 200, "yes",
                              ObjectId(profile_id), NoneId)
                           EXCEPT !.listed = <<ObjectId(profile_id)>>])

\* ------------------------------------------------------- GET /profiles
\* s.strip().lower() of one word of the skills filter
LowerWord(w) == CASE w = "Go" -> "go" [] OTHER -> w

\* The query list_profiles builds: the caller's scope first, then the filters
\* the client supplied, each assigned over what the key held.
ListProfilesQuery(who, userId, organizationId, location, skills, isActive) ==
    LET scoped ==
            [userId |-> IF who.role = "candidate" THEN ObjectId(who.sub) ELSE NoneId,
             organizationId |->
                IF who.role # "candidate" /\ who.organizationId # NoneStr
                THEN ObjectId(who.organizationId) ELSE NoneId]
    IN  [userId |-> IF userId # NoneStr THEN ObjectId(userId) ELSE scoped.userId,
         organizationId |-> IF organizationId # NoneStr THEN ObjectId(organizationId)
                            ELSE scoped.organizationId,
         location |-> location,
         skills |-> IF skills = UnsetWords THEN UnsetWords
                    ELSE {LowerWord(w) : w \in skills},
         isActive |-> isActive]

\* candidate_profiles.find(query): a key the query lacks matches anything
ProfileMatches(profile, query) ==
    /\ query.userId # NoneId => profile.userId = query.userId
    /\ query.organizationId # NoneId => profile.organizationId = query.organizationId
    /\ query.location # UnsetText => RegexMatch(query.location, profile.location)
    /\ query.skills # UnsetWords => profile.skills \cap query.skills # {}
    /\ query.isActive # Unset => profile.isActive = (query.isActive = "true")

\* sort(field, -1) on the creation time: newest (largest _id) first
Newest(S) == [k \in 1..Cardinality(S) |->
                CHOOSE x \in S : Cardinality({y \in S : y > x}) = k - 1]

\* skip(skip).limit(limit) of a sorted result
Page(sorted, skip, limit) ==
    SubSeq(sorted, skip + 1,
           IF skip + limit < Len(sorted) THEN skip + limit ELSE Len(sorted))

OptBools == {Unset, "true", "false"}

list_profiles(r, who, userId, organizationId, location, skills, isActive, paging) ==
    /\ UNCHANGED <<profiles, resumes>>
    /\ IF userId # NoneStr /\ ~IsValid(userId)
       THEN Finish(r, Out("list_profiles", who, 400, "-", NoneId, NoneId))
       ELSE IF organizationId # NoneStr /\ ~IsValid(organizationId)
       THEN Finish(r, Out("list_profiles", who, 400, "-", NoneId, NoneId))
       ELSE LET query == ListProfilesQuery(who, userId, organizationId, location,
                                           skills, isActive)
                found == {i \in 1..Len(profiles) : ProfileMatches(profiles[i], query)}
                skip == (paging[1] - 1) * paging[2]
            IN  Finish(r, [Out("list_profiles", who, 200, "yes", NoneId, NoneId)
                            EXCEPT !.listed = Page(Newest(found), skip, paging[2])])

\* ------------------------------------------------------ resume fields
NoKey == 0

S3Keys == {NoKey} \cup 1..NumS3Keys

ResumeIdStrs == {Str(i) : i \in 1..(NumS3Keys + 1)} \cup {BadStr}

ResumeExists(oid) == oid \in 1..Len(resumes)

\* The resumes of a profile that are active and primary
ActivePrimaries(rs, profileId) ==
    {i \in 1..Len(rs) :
        rs[i].profileId = profileId /\ rs[i].isActive /\ rs[i].isPrimary}

\* The same update_many with the filter's profileId left as the request's
\* string instead of ObjectId(profileId): the stored field is an ObjectId, the
\* filter matches no document and nothing is cleared
UnsetOtherPrimaries_StringProfileId(rs, profileId, except) == rs

\* update_many({"profileId": p, "_id": {"$ne": except}, "isActive": True},
\*             {"$set": {"isPrimary": False}}); except = NoneId: no _id clause
\* update_many whose filter leaves out "isActive": True
UnsetOtherPrimaries_InactiveToo(rs, profileId, except) ==
    [i \in 1..Len(rs) |->
        IF rs[i].profileId = profileId /\ i # except
        THEN [rs[i] EXCEPT !.isPrimary = FALSE] ELSE rs[i]]

UnsetOtherPrimaries(rs, profileId, except) ==
    [i \in 1..Len(rs) |->
        IF rs[i].profileId = profileId /\ i # except /\ rs[i].isActive
        THEN [rs[i] EXCEPT !.isPrimary = FALSE]
        ELSE rs[i]]

\* The access check of the four single-resume handlers and of
\* create_resume_metadata: only a candidate is checked
ResumeAccess(who, profile) ==
    who.role = "candidate" => who.sub = Str(profile.userId)

\* A request that has marked resume a primary is noted by every other request
\* in flight (history only)
NoteMarked(fl, r, a) ==
    [q \in DOMAIN fl |->
        IF q # r /\ fl[q].pc # "idle"
        THEN [fl[q] EXCEPT !.overlap = @ \cup {a}]
        ELSE fl[q]]

\* ------------------------------------------------------ POST /resumes
\* create_resume_metadata with the update_many that unsets the other
\* primaries placed before the ownership check instead of after it
create_resume_metadata_ClearBeforeCheck(r, who, profileId, isActive, isPrimary, s3Key, history) ==
    /\ UNCHANGED profiles
    /\ IF ~IsValid(profileId)
       THEN /\ UNCHANGED resumes
            /\ Finish(r, Out("create_resume_metadata", who, 400, "-", NoneId, NoneId))
       ELSE IF ~ProfileExists(ObjectId(profileId))
       THEN /\ UNCHANGED resumes
            /\ Finish(r, Out("create_resume_metadata", who, 404, "-", NoneId, NoneId))
       ELSE IF ~ResumeAccess(who, profiles[ObjectId(profileId)])
       THEN /\ resumes' = IF isPrimary
                          THEN UnsetOtherPrimaries(resumes, ObjectId(profileId), NoneId)
                          ELSE resumes
            /\ Finish(r, Out("create_resume_metadata", who, 403, "no",
                             ObjectId(profileId), NoneId))
       ELSE /\ resumes' = IF isPrimary
                          THEN UnsetOtherPrimaries(resumes, ObjectId(profileId), NoneId)
                          ELSE resumes
            /\ inflight' = [inflight EXCEPT ![r] =
                    [Idle EXCEPT
                        !.pc = "insert_resume",
                        !.op = "create_resume_metadata",
                        !.profile = ObjectId(profileId),
                        !.doc = [profileId |-> ObjectId(profileId),
                                 isActive |-> isActive,
                                 isPrimary |-> isPrimary,
                                 s3Key |-> s3Key],
                        !.pre = IF history
                                THEN ActivePrimaries(resumes, ObjectId(profileId))
                                ELSE {},
                        !.marks = isPrimary]]
            /\ out' = Out("create_resume_metadata", who, 0, "yes",
                          ObjectId(profileId), NoneId)

create_resume_metadata(r, who, profileId, isActive, isPrimary, s3Key, history) ==
    /\ UNCHANGED <<profiles, resumes>>
    /\ IF ~IsValid(profileId)
       THEN Finish(r, Out("create_resume_metadata", who, 400, "-", NoneId, NoneId))
       ELSE IF ~ProfileExists(ObjectId(profileId))
       THEN Finish(r, Out("create_resume_metadata", who, 404, "-", NoneId, NoneId))
       ELSE IF ~ResumeAccess(who, profiles[ObjectId(profileId)])
       THEN Finish(r, Out("create_resume_metadata", who, 403, "no",
                          ObjectId(profileId), NoneId))
       ELSE /\ inflight' = [inflight EXCEPT ![r] =
                    [Idle EXCEPT
                        !.pc = IF isPrimary THEN "unset_primaries" ELSE "insert_resume",
                        !.op = "create_resume_metadata",
                        !.profile = ObjectId(profileId),
                        !.doc = [profileId |-> ObjectId(profileId),
                                 isActive |-> isActive,
                                 isPrimary |-> isPrimary,
                                 s3Key |-> s3Key],
                        !.pre = IF history
                                THEN ActivePrimaries(resumes, ObjectId(profileId))
                                ELSE {},
                        !.marks = isPrimary]]
            /\ out' = Out("create_resume_metadata", who, 0, "yes",
                          ObjectId(profileId), NoneId)

\* create_resume_metadata with the update_many moved behind insert_one: the
\* request goes to its insert with the other primaries still set
create_resume_unset_primaries_AfterInsert(r) ==
    /\ Ready
    /\ request' = NoRequest
    /\ inflight[r].pc = "unset_primaries"
    /\ inflight[r].op = "create_resume_metadata"
    /\ inflight' = [inflight EXCEPT ![r].pc = "insert_resume"]
    /\ out' = NoOut
    /\ UNCHANGED <<profiles, resumes>>

create_resume_unset_primaries(r) ==
    /\ Ready
    /\ request' = NoRequest
    /\ inflight[r].pc = "unset_primaries"
    /\ inflight[r].op = "create_resume_metadata"
    /\ resumes' = UnsetOtherPrimaries(resumes, inflight[r].profile, NoneId)
    /\ inflight' = [inflight EXCEPT ![r].pc = "insert_resume"]
    /\ out' = NoOut
    /\ UNCHANGED profiles

\* insert_one under the unique index on s3Key (create_indexes)
create_resume_insert(r) ==
    /\ Ready
    /\ request' = NoRequest
    /\ inflight[r].pc = "insert_resume"
    /\ UNCHANGED profiles
    /\ LET me == inflight[r]
           done(status, id) ==
                [Out("create_resume_metadata", NoIdentity, status, "-", me.profile, id)
                    EXCEPT !.pre = me.pre, !.marks = me.marks, !.overlap = me.overlap]
       IN  IF \E i \in 1..Len(resumes) : resumes[i].s3Key = me.doc.s3Key
           THEN \* DuplicateKeyError, not handled: 500
                /\ UNCHANGED resumes
                /\ Finish(r, done(500, NoneId))
           ELSE /\ resumes' = Append(resumes, me.doc)
                /\ inflight' = [IF me.marks
                                THEN NoteMarked(inflight, r, Len(resumes) + 1)
                                ELSE inflight EXCEPT ![r] = Idle]
                /\ out' = done(201, Len(resumes) + 1)

\* ------------------------------------------- GET /resumes/{resume_id}
\* The same without the `if not profile` check after the profile lookup: a
\* resume whose profile is missing goes on as if allowed
ResolveResume_OrphanTolerated(who, resume_id) ==
    IF ~IsValid(resume_id) THEN 400
    ELSE IF ~ResumeExists(ObjectId(resume_id)) THEN 404
    ELSE IF ~ProfileExists(resumes[ObjectId(resume_id)].profileId) THEN 0
    ELSE IF ~ResumeAccess(who, profiles[resumes[ObjectId(resume_id)].profileId])
    THEN 403
    ELSE 0

\* What the three handlers that take a resume id do up to the access check:
\* 400, 404 (resume, then its profile), 403, or 0 to go on
ResolveResume(who, resume_id) ==
    IF ~IsValid(resume_id) THEN 400
    ELSE IF ~ResumeExists(ObjectId(resume_id)) THEN 404
    ELSE IF ~ProfileExists(resumes[ObjectId(resume_id)].profileId) THEN 404
    ELSE IF ~ResumeAccess(who, profiles[resumes[ObjectId(resume_id)].profileId])
    THEN 403
    ELSE 0

\* The outcome of a resume handler that stops at ResolveResume
Refused(op, who, resume_id, status) ==
    IF status = 403
    THEN Out(op, who, 403, "no", resumes[ObjectId(resume_id)].profileId,
             ObjectId(resume_id))
    ELSE Out(op, who, status, "-", NoneId, NoneId)

get_resume_metadata(r, who, resume_id) ==
    /\ UNCHANGED <<profiles, resumes>>
    /\ LET status == ResolveResume(who, resume_id) IN
       IF status # 0
       THEN Finish(r, Refused("get_resume_metadata", who, resume_id, status))
       ELSE Finish(r, [Out("get_resume_metadata", who, 200, "yes",
                           resumes[ObjectId(resume_id)].profileId, ObjectId(resume_id))
                        EXCEPT !.listed = <<ObjectId(resume_id)>>])

\* -------------------------------------------------------- GET /resumes
ResumeMatches(resume, profileId, isActive, isPrimary) ==
    /\ profileId # NoneStr => resume.profileId = ObjectId(profileId)
    /\ isActive # Unset => resume.isActive = (isActive = "true")
    /\ isPrimary # Unset => resume.isPrimary = (isPrimary = "true")

list_resume_metadata(r, who, profileId, isActive, isPrimary) ==
    /\ UNCHANGED <<profiles, resumes>>
    /\ IF profileId # NoneStr /\ ~IsValid(profileId)
       THEN Finish(r, Out("list_resume_metadata", who, 400, "-", NoneId, NoneId))
       ELSE IF profileId # NoneStr /\ ~ProfileExists(ObjectId(profileId))
       THEN Finish(r, Out("list_resume_metadata", who, 404, "-", NoneId, NoneId))
       ELSE IF profileId # NoneStr /\ ~ResumeAccess(who, profiles[ObjectId(profileId)])
       THEN Finish(r, Out("list_resume_metadata", who, 403, "no",
                          ObjectId(profileId), NoneId))
       ELSE Finish(r, [Out("list_resume_metadata", who, 200, "yes",
                           IF profileId # NoneStr THEN ObjectId(profileId) ELSE NoneId,
                           NoneId)
                        EXCEPT !.listed = Newest({i \in 1..Len(resumes) :
                            ResumeMatches(resumes[i], profileId, isActive, isPrimary)})])

\* ------------------------------------------- PUT /resumes/{resume_id}
\* ResumeMetadataUpdate after model_dump(exclude_unset=True)
ResumeUpdates == [isActive : OptBools, isPrimary : OptBools]

\* update_one({"_id": id}, {"$set": update_data})
ApplyResumeUpdate(resume, update_data) ==
    [resume EXCEPT
        !.isActive = IF update_data.isActive = Unset THEN @
                     ELSE update_data.isActive = "true",
        !.isPrimary = IF update_data.isPrimary = Unset THEN @
                      ELSE update_data.isPrimary = "true"]

update_resume_metadata(r, who, resume_id, update_data, history) ==
    /\ UNCHANGED <<profiles, resumes>>
    /\ LET status == ResolveResume(who, resume_id) IN
       IF status # 0
       THEN Finish(r, Refused("update_resume_metadata", who, resume_id, status))
       ELSE LET id == ObjectId(resume_id) IN
            /\ inflight' = [inflight EXCEPT ![r] =
                    [Idle EXCEPT
                        !.pc = IF update_data.isPrimary = "true" THEN "unset_primaries"
                               ELSE IF update_data.isActive # Unset
                                       \/ update_data.isPrimary # Unset
                               THEN "update_one"
                               ELSE "find_updated",
                        !.op = "update_resume_metadata",
                        !.profile = resumes[id].profileId,
                        !.resume = id,
                        !.doc = update_data,
                        !.pre = IF history
                                THEN ActivePrimaries(resumes, resumes[id].profileId)
                                ELSE {},
                        !.marks = (update_data.isPrimary = "true")]]
            /\ out' = Out("update_resume_metadata", who, 0, "yes",
                          resumes[id].profileId, id)

update_resume_unset_primaries(r) ==
    /\ Ready
    /\ request' = NoRequest
    /\ inflight[r].pc = "unset_primaries"
    /\ inflight[r].op = "update_resume_metadata"
    /\ resumes' = UnsetOtherPrimaries(resumes, inflight[r].profile, inflight[r].resume)
    /\ inflight' = [inflight EXCEPT ![r].pc = "update_one"]
    /\ out' = NoOut
    /\ UNCHANGED profiles

update_resume_update_one(r) ==
    /\ Ready
    /\ request' = NoRequest
    /\ inflight[r].pc = "update_one"
    /\ resumes' = [resumes EXCEPT ![inflight[r].resume] =
                        ApplyResumeUpdate(@, inflight[r].doc)]
    /\ inflight' = [IF inflight[r].marks
                    THEN NoteMarked(inflight, r, inflight[r].resume)
                    ELSE inflight EXCEPT ![r].pc = "find_updated"]
    /\ out' = NoOut
    /\ UNCHANGED profiles

update_resume_find_updated(r) ==
    /\ Ready
    /\ request' = NoRequest
    /\ inflight[r].pc = "find_updated"
    /\ UNCHANGED <<profiles, resumes>>
    /\ LET me == inflight[r] IN
       Finish(r, [Out("update_resume_metadata", NoIdentity, 200, "-",
                      me.profile, me.resume)
                    EXCEPT !.listed = <<me.resume>>, !.pre = me.pre,
                           !.marks = me.marks, !.overlap = me.overlap])

\* ---------------------------------------- DELETE /resumes/{resume_id}
\* delete_resume_metadata whose update_one also takes the primary flag off
\* the resume: {"$set": {"isActive": False, "isPrimary": False}}
delete_resume_metadata_ClearsPrimary(r, who, resume_id) ==
    /\ UNCHANGED profiles
    /\ LET status == ResolveResume(who, resume_id) IN
       IF status # 0
       THEN /\ UNCHANGED resumes
            /\ Finish(r, Refused("delete_resume_metadata", who, resume_id, status))
       ELSE /\ resumes' = [resumes EXCEPT ![ObjectId(resume_id)] =
                                [@ EXCEPT !.isActive = FALSE, !.isPrimary = FALSE]]
            /\ Finish(r, Out("delete_resume_metadata", who, 200, "yes",
                             resumes[ObjectId(resume_id)].profileId,
                             ObjectId(resume_id)))

delete_resume_metadata(r, who, resume_id) ==
    /\ UNCHANGED profiles
    /\ LET status == ResolveResume(who, resume_id) IN
       IF status # 0
       THEN /\ UNCHANGED resumes
            /\ Finish(r, Refused("delete_resume_metadata", who, resume_id, status))
       ELSE /\ resumes' = [resumes EXCEPT ![ObjectId(resume_id)].isActive = FALSE]
            /\ Finish(r, Out("delete_resume_metadata", who, 200, "yes",
                             resumes[ObjectId(resume_id)].profileId,
                             ObjectId(resume_id)))

\* ------------------------------------------------------ the machine
Deliver ==
    /\ out # NoOut
    /\ out' = NoOut
    /\ request' = NoRequest
    /\ UNCHANGED <<profiles, resumes, inflight>>

Init ==
    /\ profiles = <<>>
    /\ resumes = <<>>
    /\ inflight = [r \in 1..NumReq |-> Idle]
    /\ out = NoOut
    /\ request = NoRequest

\* The filters a client passes to GET /profiles: every combination of set
\* and unset, two malformed ids, and a second page
ProfileFilters ==
    [userId : {NoneStr} \cup {Str(u) : u \in Users},
     organizationId : {NoneStr, Str(1)},
     location : {UnsetText, <<"n">>},
     skills : {UnsetWords, {"Go"}},
     isActive : {Unset, "true"},
     paging : {<<1, 10>>}]
    \cup {[userId |-> BadStr, organizationId |-> NoneStr, location |-> UnsetText,
           skills |-> UnsetWords, isActive |-> Unset, paging |-> <<1, 10>>],
          [userId |-> NoneStr, organizationId |-> BadStr, location |-> UnsetText,
           skills |-> UnsetWords, isActive |-> "false", paging |-> <<1, 10>>],
          [userId |-> NoneStr, organizationId |-> NoneStr, location |-> UnsetText,
           skills |-> UnsetWords, isActive |-> Unset, paging |-> <<2, 1>>]}

\* The filters a client passes to GET /resumes
ResumeFilters ==
    [profileId : ProfileIdStrs \cup {NoneStr},
     isActive : {Unset, "true"},
     isPrimary : {Unset, "true"}]
    \cup {[profileId |-> NoneStr, isActive |-> "false", isPrimary |-> "false"]}

\* The routes that depend on get_current_user
Endpoints ==
    {"create_profile", "get_profile", "get_profile_by_user_id", "list_profiles",
     "update_profile", "create_resume_metadata", "get_resume_metadata",
     "list_resume_metadata", "update_resume_metadata", "delete_resume_metadata"}

\* The dependency of a route raised: the handler is not entered
Reject(r, credentials, status) ==
    /\ \E op \in Endpoints :
            Finish(r, Out(op, NoIdentity, status, "-", NoneId, NoneId))
    /\ request' = Request(credentials, NoneStr)
    /\ UNCHANGED <<profiles, resumes>>

\* The body of the request does not validate against the model the route
\* declares: RequestValidationError, the handler is not entered
Unprocessable(r, op, who) ==
    /\ Finish(r, Out(op, who, 422, "-", NoneId, NoneId))
    /\ UNCHANGED <<profiles, resumes>>

\* The handler the route of the request names, entered with the identity
\* once the body has validated
Handle(r, who, credentials, in) ==
    \/ \E userId \in UserIdStrs, organizationId \in in.profileOrgs,
          body \in in.bodies :
            /\ request' = [Request(credentials, userId)
                                EXCEPT !.experience = body.experience]
            /\ IF ProfileCreate(body)
               THEN create_profile(r, who, userId, organizationId, body)
               ELSE Unprocessable(r, "create_profile", who)
    \/ \E profile_id \in ProfileIdStrs :
            /\ request' = Request(credentials, profile_id)
            /\ get_profile(r, who, profile_id)
    \/ \E user_id \in UserIdStrs \cup {BadStr} :
            /\ request' = Request(credentials, user_id)
            /\ get_profile_by_user_id(r, who, user_id)
    \/ \E f \in in.profileFilters :
            /\ request' = Request(credentials, NoneStr)
            /\ list_profiles(r, who, f.userId, f.organizationId, f.location,
                             f.skills, f.isActive, f.paging)
    \/ \E profile_id \in ProfileIdStrs, profile_update \in in.profileUpdates :
            /\ request' = [Request(credentials, profile_id) EXCEPT
                    !.experience = IF profile_update.experience = UnsetExperience
                                   THEN <<>> ELSE profile_update.experience]
            /\ IF ProfileUpdate(profile_update)
               THEN update_profile(r, who, profile_id, profile_update)
               ELSE Unprocessable(r, "update_profile", who)
    \/ \E profileId \in ProfileIdStrs, isActive \in in.resumeActive,
          isPrimary \in BOOLEAN, s3Key \in S3Keys :
            /\ request' = Request(credentials, profileId)
            /\ create_resume_metadata(r, who, profileId, isActive, isPrimary, s3Key,
                                      in.history)
    \/ \E resume_id \in ResumeIdStrs :
            /\ request' = Request(credentials, resume_id)
            /\ get_resume_metadata(r, who, resume_id)
    \/ \E f \in in.resumeFilters :
            /\ request' = Request(credentials, f.profileId)
            /\ list_resume_metadata(r, who, f.profileId, f.isActive, f.isPrimary)
    \/ \E resume_id \in ResumeIdStrs, update_data \in in.resumeUpdates :
            /\ request' = Request(credentials, resume_id)
            /\ update_resume_metadata(r, who, resume_id, update_data, in.history)
    \/ \E resume_id \in ResumeIdStrs :
            /\ request' = Request(credentials, resume_id)
            /\ delete_resume_metadata(r, who, resume_id)

\* A request arrives, takes the first free slot r and its first step: the
\* dependencies of the route (HTTPBearer, then get_current_user), then the
\* handler up to its first write; in gives the sets its credentials and its
\* inputs are drawn from
Begin(r, in) ==
    /\ Ready
    /\ inflight[r].pc = "idle"
    /\ \A q \in 1..(r - 1) : inflight[q].pc # "idle"
    /\ \E credentials \in in.credentials :
        IF ~security(credentials)
        THEN Reject(r, credentials, 403)
        ELSE IF get_current_user(credentials) = NoIdentity
        THEN Reject(r, credentials, 401)
        ELSE Handle(r, get_current_user(credentials), credentials, in)

\* The request in slot r takes its next storage step
Continue(r) ==
    \/ create_profile_insert(r)
    \/ create_resume_unset_primaries(r)
    \/ create_resume_insert(r)
    \/ update_resume_unset_primaries(r)
    \/ update_resume_update_one(r)
    \/ update_resume_find_updated(r)

\* The identities that send requests one at a time: a candidate without and
\* a candidate with an organization claim; a recruiter and an admin without
\* an organization, inside one and inside the other; an identity of an unknown
\* role and one without a role
Callers ==
    {w \in Identities :
        \/ w.role = "candidate" /\ w.sub = Str(1) /\ w.organizationId = NoneStr
        \/ w.role = "candidate" /\ w.sub = Str(2) /\ w.organizationId = Str(1)
        \/ w.role \in {"recruiter", "employer_admin"} /\ w.sub = Str(1)
        \/ w.role \in {"auditor", NoRole} /\ w.sub = Str(1)
                /\ w.organizationId = Str(1)}

SeqInputs ==
    [credentials |-> {Token(w) : w \in Callers},
     history |-> TRUE,
     profileOrgs |-> {NoneStr, BadStr, Str(1)},
     bodies |-> ProfileBodies,
     profileUpdates |-> ProfileUpdates,
     profileFilters |-> ProfileFilters,
     resumeActive |-> BOOLEAN,
     resumeFilters |-> ResumeFilters,
     resumeUpdates |-> ResumeUpdates]

\* Requests one at a time
SeqNext == Begin(1, SeqInputs) \/ Continue(1) \/ Deliver

SeqSpec == Init /\ [][SeqNext]_vars

\* The interleaved runs: one candidate, a profile without organization,
\* resumes created active, the resume updates that touch the primary flag only
ConcurrentInputs ==
    [credentials |-> {Token(w) : w \in {c \in Callers :
                            c.role = "candidate" /\ c.sub = Str(1)}},
     history |-> FALSE,
     profileOrgs |-> {NoneStr},
     bodies |-> {b \in ProfileBodies : b.location = <<>>},
     profileUpdates |-> ProfileUpdates,
     profileFilters |-> {f \in ProfileFilters :
                            f.location = UnsetText /\ f.skills = UnsetWords},
     resumeActive |-> {TRUE},
     resumeFilters |-> {f \in ResumeFilters : f.isActive = Unset},
     resumeUpdates |-> {u \in ResumeUpdates : u.isActive = Unset}]

Next ==
    \/ \E r \in 1..NumReq : Begin(r, ConcurrentInputs) \/ Continue(r)
    \/ Deliver

Spec == Init /\ [][Next]_vars

\* The requests that carry any credentials or none: two identities, each with
\* its token and the credentials one change away from it; few other inputs
AuthInputs ==
    [credentials |-> UNION {Credentials(w) : w \in {c \in Callers :
                        /\ c.sub = Str(1) /\ c.organizationId = NoneStr
                        /\ c.role \in {"candidate", "recruiter"}}},
     history |-> FALSE,
     profileOrgs |-> {NoneStr},
     bodies |-> {b \in ProfileBodies : b.location = <<>>},
     profileUpdates |-> ProfileUpdates,
     profileFilters |-> {f \in ProfileFilters :
                            /\ f.location = UnsetText /\ f.skills = UnsetWords
                            /\ f.organizationId = NoneStr},
     resumeActive |-> BOOLEAN,
     resumeFilters |-> {f \in ResumeFilters : f.isActive = Unset},
     resumeUpdates |-> ResumeUpdates]

AuthNext == Begin(1, AuthInputs) \/ Continue(1) \/ Deliver

AuthSpec == Init /\ [][AuthNext]_vars

\* A store that holds a resume whose profile is gone: the service never
\* removes a profile, but the collections are MongoDB's and a profile document
\* can be removed there; the handlers look the profile up for that reason.
\* The resume references an _id no stored profile has or will have.
OrphanProfileId == NumUsers + 1

OrphanInit ==
    /\ profiles = <<>>
    /\ resumes = <<[profileId |-> OrphanProfileId, isActive |-> TRUE,
                    isPrimary |-> TRUE, s3Key |-> NoKey]>>
    /\ inflight = [r \in 1..NumReq |-> Idle]
    /\ out = NoOut
    /\ request = NoRequest

\* Every identity, few other inputs
OrphanInputs ==
    [credentials |-> {Token(w) : w \in Callers},
     history |-> FALSE,
     profileOrgs |-> {NoneStr, Str(1)},
     bodies |-> {b \in ProfileBodies : b.location = <<>>},
     profileUpdates |-> ProfileUpdates,
     profileFilters |-> {f \in ProfileFilters :
                            /\ f.location = UnsetText /\ f.skills = UnsetWords
                            /\ f.organizationId = NoneStr /\ f.userId = NoneStr},
     resumeActive |-> BOOLEAN,
     resumeFilters |-> {f \in ResumeFilters : f.isActive = Unset},
     resumeUpdates |-> ResumeUpdates]

OrphanNext == Begin(1, OrphanInputs) \/ Continue(1) \/ Deliver

OrphanSpec == OrphanInit /\ [][OrphanNext]_vars

\* The requests that carry work history.  The dates: "", "2020-01", "2021",
\* "2021-05" and "2021-1" (no format is enforced on either date)
Dates ==
    {<<>>,
     <<"2", "0", "2", "0", "-", "0", "1">>,
     <<"2", "0", "2", "1">>,
     <<"2", "0", "2", "1", "-", "0", "5">>,
     <<"2", "0", "2", "1", "-", "1">>}

Experiences == [startDate : Dates, endDate : Dates \cup {NoneDate}]

\* No entry, one entry, or an entry that validates followed by any entry
ExperienceLists ==
    {<<>>} \cup {<<e>> : e \in Experiences}
           \cup {<<[startDate |-> <<"2", "0", "2", "1">>, endDate |-> NoneDate], e>> :
                        e \in Experiences}

\* One candidate, a recruiter and an auditor; profiles and updates with work
\* history, few other inputs
ExperienceInputs ==
    [credentials |-> {Token(w) : w \in {c \in Callers :
                        /\ c.sub = Str(1) /\ c.organizationId = NoneStr
                        /\ c.role \in {"candidate", "recruiter", "auditor"}}},
     history |-> FALSE,
     profileOrgs |-> {NoneStr},
     bodies |-> {[location |-> <<>>, skills |-> {}, experience |-> x] :
                    x \in ExperienceLists},
     profileUpdates |-> {[location |-> UnsetText, skills |-> UnsetWords,
                          experience |-> x, userId |-> NoneStr,
                          organizationId |-> NoneStr] :
                            x \in ExperienceLists \cup {UnsetExperience}},
     profileFilters |-> {f \in ProfileFilters :
                            /\ f.location = UnsetText /\ f.skills = UnsetWords
                            /\ f.organizationId = NoneStr /\ f.userId = NoneStr},
     resumeActive |-> {TRUE},
     resumeFilters |-> {f \in ResumeFilters : f.isActive = Unset},
     resumeUpdates |-> {u \in ResumeUpdates : u.isActive = Unset}]

ExperienceNext == Begin(1, ExperienceInputs) \/ Continue(1) \/ Deliver

ExperienceSpec == Init /\ [][ExperienceNext]_vars

\* ================================================================ claims
AllIdle == \A r \in 1..NumReq : inflight[r].pc = "idle"

\* The step just taken completed a create or an update of a resume
WroteResume ==
    \/ out.op = "create_resume_metadata" /\ out.status = 201
    \/ out.op = "update_resume_metadata" /\ out.status = 200

IsActivePrimary(i) == resumes[i].isActive /\ resumes[i].isPrimary

\* C1 (SeqSpec): whenever no request is in flight, that is after any sequence
\* of completed create, update and delete requests on the empty store, every
\* profile has at most one resume that is active and primary.
C1_AtMostOneActivePrimary ==
    AllIdle =>
        \A p \in 1..Len(profiles) : Cardinality(ActivePrimaries(resumes, p)) <= 1

\* C2 (Spec): when a request that marked a resume primary completes, and a
\* request that overlapped it marked another resume primary, the two resumes
\* are not both active and primary.
C2_RaceLeavesOnePrimary ==
    (WroteResume /\ out.marks) =>
        \A a \in out.overlap \ {out.resume} :
            ~(/\ resumes[a].profileId = out.profile
              /\ IsActivePrimary(a)
              /\ IsActivePrimary(out.resume))

\* C3 (SeqSpec): when an update that set isPrimary = true on a resume of
\* profile P completes, exactly one active resume of P is primary.
C3_UpdateLeavesExactlyOnePrimary ==
    (out.op = "update_resume_metadata" /\ out.status = 200 /\ out.marks) =>
        Cardinality(ActivePrimaries(resumes, out.profile)) = 1

\* C4 (SeqSpec): when a create with isPrimary = true for profile P completes
\* (201), every resume that was an active primary of P when the request began
\* has isPrimary = false and the inserted resume has isPrimary = true.
C4_CreatePrimaryReplacesPrimary ==
    (out.op = "create_resume_metadata" /\ out.status = 201 /\ out.marks) =>
        /\ resumes[out.resume].isPrimary
        /\ \A x \in out.pre : ~resumes[x].isPrimary

\* C4 witness: such a create has completed for a profile that had an active
\* primary resume when it began.
C4_Witness ==
    /\ out.op = "create_resume_metadata" /\ out.status = 201 /\ out.marks
    /\ out.pre # {}

\* C5 (SeqSpec): when a create or an update completes and the record it wrote
\* is active and primary, no other active resume of the same profile is
\* primary.
C5_PrimaryWriteClearsOthers ==
    (WroteResume /\ IsActivePrimary(out.resume)) =>
        ActivePrimaries(resumes, out.profile) = {out.resume}

SingleTargetOps ==
    {"get_profile", "get_profile_by_user_id", "update_profile",
     "create_resume_metadata", "get_resume_metadata", "update_resume_metadata",
     "delete_resume_metadata"}

\* The profile the decision just taken was about belongs to its caller
CallerOwnsTarget == profiles[out.profile].userId = ObjectId(out.who.sub)

\* The profile the decision just taken was about has an organization, the
\* caller's
CallerInTargetOrg ==
    /\ profiles[out.profile].organizationId # NoneId
    /\ out.who.organizationId = Str(profiles[out.profile].organizationId)

\* C6 (SeqSpec): an access decision on a single-target operation for a
\* candidate grants iff the candidate's subject id is the userId of the target
\* profile (for a resume, of the profile it references).
C6_CandidateIffOwner ==
    (out.granted # "-" /\ out.who.role = "candidate" /\ out.op \in SingleTargetOps)
        => (out.granted = "yes" <=> CallerOwnsTarget)

\* C7 (SeqSpec): an access decision of get_profile, get_profile_by_user_id or
\* update_profile for a recruiter or employer_admin grants iff the profile has
\* an organizationId and it is the caller's.
C7_StaffIffSameOrgProfile ==
    (/\ out.granted # "-"
     /\ out.who.role \in {"recruiter", "employer_admin"}
     /\ out.op \in {"get_profile", "get_profile_by_user_id", "update_profile"})
        => (out.granted = "yes" <=> CallerInTargetOrg)

\* C8 (SeqSpec): an access decision of a resume operation (create, get,
\* update, delete) for a recruiter or employer_admin grants iff the profile the
\* resume references has an organizationId and it is the caller's.
C8_StaffIffSameOrgResume ==
    (/\ out.granted # "-"
     /\ out.who.role \in {"recruiter", "employer_admin"}
     /\ out.op \in {"create_resume_metadata", "get_resume_metadata",
                     "update_resume_metadata", "delete_resume_metadata"})
        => (out.granted = "yes" <=> CallerInTargetOrg)

\* C9 (SeqSpec): every access decision for an identity whose role is none of
\* candidate, recruiter, employer_admin (or is missing) is a denial.
C9_UnknownRoleDenied ==
    (/\ out.granted # "-"
     /\ out.who.role \notin {"candidate", "recruiter", "employer_admin"})
        => out.granted = "no"

\* C10 (SeqSpec): every profile list_profiles returns to a candidate has the
\* candidate's subject id as its userId, whatever the filters.
C10_CandidateListsOwnProfiles ==
    (out.op = "list_profiles" /\ out.status = 200 /\ out.who.role = "candidate")
        => \A k \in 1..Len(out.listed) :
                profiles[out.listed[k]].userId = ObjectId(out.who.sub)

\* C11 (SeqSpec): every profile list_profiles returns to a recruiter or
\* employer_admin that has an organizationId has that organizationId, whatever
\* the filters (an organizationId filter included).
C11_StaffListsOwnOrgProfiles ==
    (/\ out.op = "list_profiles" /\ out.status = 200
     /\ out.who.role \in {"recruiter", "employer_admin"}
     /\ out.who.organizationId # NoneStr)
        => \A k \in 1..Len(out.listed) :
                Str(profiles[out.listed[k]].organizationId) = out.who.organizationId

\* C12 (SeqSpec): every resume list_resume_metadata returns to a candidate
\* references a profile whose userId is the candidate's subject id, whatever
\* the filters (no profileId filter included).
C12_CandidateListsOwnResumes ==
    (/\ out.op = "list_resume_metadata" /\ out.status = 200
     /\ out.who.role = "candidate")
        => \A k \in 1..Len(out.listed) :
                profiles[resumes[out.listed[k]].profileId].userId
                    = ObjectId(out.who.sub)

\* C13 (Spec): no two stored profiles have the same userId, however the steps
\* of create_profile and update_profile requests interleave.
C13_OneProfilePerUser ==
    \A i, j \in 1..Len(profiles) :
        profiles[i].userId = profiles[j].userId => i = j

\* C13 witness: two create_profile requests for one userId both passed the
\* existence check, and the insert of the second has met the stored profile
\* of the first.
C13_Witness ==
    /\ out.op = "create_profile" /\ out.status = 500
    /\ out.profile # NoneId

\* C14 (Spec): a create_profile request that inserts nothing because its userId
\* already has a stored profile (found by its existence check or met by its
\* insert) answers 400.
C14_DuplicateCreateIsConflict ==
    (/\ out.op = "create_profile" /\ out.status \notin {0, 201, 403}
     /\ out.profile # NoneId)
        => out.status = 400

\* C15 (SeqSpec): a create_profile request of a candidate whose supplied
\* userId is not the token's subject id is answered 403, ends there and leaves
\* the profiles as they were; a create_profile request that goes on to its
\* insert holds a document whose userId is the subject id of the candidate
\* that sent it; and a profile is stored only by such an insert, as that
\* document.
C15_CreateProfileOnlyForSelf ==
    [][/\ (/\ out'.op = "create_profile" /\ request'.sent
           /\ out'.who.role = "candidate" /\ request'.id # out'.who.sub)
            => (/\ out'.status = 403
                /\ profiles' = profiles
                /\ \A r \in 1..NumReq : inflight'[r].pc = "idle")
       /\ (out'.op = "create_profile" /\ out'.status = 0)
            => (/\ out'.who.role = "candidate"
                /\ \E r \in 1..NumReq :
                        /\ inflight[r].pc = "idle"
                        /\ inflight'[r].pc = "insert_profile"
                        /\ inflight'[r].doc.userId = ObjectId(out'.who.sub))
       /\ Len(profiles') > Len(profiles)
            => \E r \in 1..NumReq :
                    /\ inflight[r].pc = "insert_profile"
                    /\ profiles' = Append(profiles, inflight[r].doc)]_vars

\* C15 witness: a candidate has asked to create a profile for a userId that is
\* not its subject id, while that user has no profile, and was answered 403.
C15_Witness ==
    /\ out.op = "create_profile" /\ out.status = 403
    /\ out.who.role = "candidate"
    /\ IsValid(request.id) /\ ObjectId(request.id) # ObjectId(out.who.sub)
    /\ ProfileOfUser(ObjectId(request.id)) = NoneId

\* What the token contract asks of a bearer token: a JWT signed with the
\* shared secret and the configured algorithm, not expired, of the issuer, for
\* the audience, of type access, with a subject (sub, else userId)
MeetsTokenContract(t) ==
    /\ t.jwt /\ t.key = "JWT_SECRET_KEY" /\ t.alg = JWT_ALGORITHM
    /\ t.exp # "past"
    /\ t.iss = Issuer /\ t.aud = Audience /\ t.type = "access"
    /\ (t.sub # NoneStr \/ t.userId # NoneStr)

\* C16 (AuthSpec): a request without a bearer credential is answered 403 and
\* a request whose bearer credential does not meet the token contract is
\* answered 401, in both cases by the step that receives it, which leaves
\* the store and the requests in flight as they were.
C16_NoCredential403Invalid401 ==
    [][request'.sent =>
        /\ ~security(request'.credentials)
            => (/\ out'.status = 403
                /\ profiles' = profiles /\ resumes' = resumes
                /\ inflight' = inflight)
        /\ (security(request'.credentials)
                /\ ~MeetsTokenContract(request'.credentials))
            => (/\ out'.status = 401
                /\ profiles' = profiles /\ resumes' = resumes
                /\ inflight' = inflight)]_vars

\* C17 (AuthSpec): a request is handled under an identity only if its token
\* meets the token contract; otherwise it is answered 401 and no identity is
\* produced.
C17_IdentityOnlyFromValidToken ==
    (request.sent /\ security(request.credentials)) =>
        IF MeetsTokenContract(request.credentials)
        THEN out.who # NoIdentity
        ELSE out.who = NoIdentity /\ out.status = 401

ResumeIdOps ==
    {"get_resume_metadata", "update_resume_metadata", "delete_resume_metadata"}

\* C18 (OrphanSpec): a get, update or delete of a resume, by any identity, on
\* a well-formed id that has no stored resume, or whose stored resume
\* references a profile that is not stored, is answered 404 by the step that
\* receives it, which leaves the store and the requests in flight unchanged.
C18_MissingOrOrphanIs404 ==
    [][(/\ request'.sent /\ out'.op \in ResumeIdOps /\ out'.who # NoIdentity
        /\ IsValid(request'.id)
        /\ \/ ~ResumeExists(ObjectId(request'.id))
           \/ ~ProfileExists(resumes[ObjectId(request'.id)].profileId))
        => (/\ out'.status = 404
            /\ profiles' = profiles /\ resumes' = resumes
            /\ inflight' = inflight)]_vars

\* C18 witness: a stored resume whose profile is not stored was asked for and
\* the answer was 404.
C18_Witness ==
    /\ request.sent /\ out.op \in ResumeIdOps /\ out.status = 404
    /\ IsValid(request.id) /\ ResumeExists(ObjectId(request.id))
    /\ ~ProfileExists(resumes[ObjectId(request.id)].profileId)

\* C19 (SeqSpec): a request that is answered 403 is answered by its first
\* step (nothing was in flight before it), and that step leaves every stored
\* profile and resume and the requests in flight unchanged.
C19_DenialChangesNothing ==
    [][out'.status = 403
        => (/\ AllIdle
            /\ profiles' = profiles /\ resumes' = resumes
            /\ inflight' = inflight)]_vars

\* C19 witness: a create of a resume was denied for a profile that has an
\* active primary resume.
C19_Witness ==
    /\ out.op = "create_resume_metadata" /\ out.status = 403
    /\ ActivePrimaries(resumes, out.profile) # {}

\* C20 (SeqSpec): an allowed delete_resume_metadata leaves the profiles as
\* they are and the resumes as they are except for isActive = false on its
\* resume; and no step removes a stored profile or resume or changes what a
\* stored record belongs to.
C20_SoftDeleteOnly ==
    [][/\ (out'.op = "delete_resume_metadata" /\ out'.status = 200)
            => (/\ profiles' = profiles
                /\ resumes' = [resumes EXCEPT ![out'.resume].isActive = FALSE])
       /\ \A i \in 1..Len(profiles) :
            i <= Len(profiles') /\ profiles'[i].userId = profiles[i].userId
       /\ \A i \in 1..Len(resumes) :
            /\ i <= Len(resumes')
            /\ resumes'[i].profileId = resumes[i].profileId
            /\ resumes'[i].s3Key = resumes[i].s3Key]_vars

\* C20 witness: an active primary resume of a profile that has another
\* active resume was soft-deleted.
C20_Witness ==
    /\ out.op = "delete_resume_metadata" /\ out.status = 200
    /\ ~resumes[out.resume].isActive /\ resumes[out.resume].isPrimary
    /\ \E i \in 1..Len(resumes) :
            /\ i # out.resume
            /\ resumes[i].profileId = out.profile /\ resumes[i].isActive

\* C21 (SeqSpec): while a request that marks a resume primary is in flight
\* and no other request is, once its clearing step is done and its write is
\* still to come no other active resume of the profile is primary; and a
\* profile that had at most one active primary resume when the request began
\* has at most one in every state up to and including the request's end.
C21_ClearBeforeWrite ==
    /\ \A r \in 1..NumReq :
        (inflight[r].marks /\ inflight[r].pc # "idle") =>
            /\ inflight[r].pc \in {"insert_resume", "update_one"}
                => ActivePrimaries(resumes, inflight[r].profile)
                        \subseteq {inflight[r].resume}
            /\ Cardinality(inflight[r].pre) <= 1
                => Cardinality(ActivePrimaries(resumes, inflight[r].profile)) <= 1
    /\ (WroteResume /\ out.marks /\ Cardinality(out.pre) <= 1)
        => Cardinality(ActivePrimaries(resumes, out.profile)) <= 1

\* C21 witness: a create that marks its resume primary has cleared the
\* profile's active primary and has not inserted yet.
C21_Witness ==
    \E r \in 1..NumReq :
        /\ inflight[r].marks /\ inflight[r].pc = "insert_resume"
        /\ inflight[r].pre # {}
        /\ out = NoOut

\* endDate is lexically smaller than startDate: the two differ first at a
\* position where endDate has the smaller character, or endDate is a proper
\* prefix of startDate
EndBeforeStart(e) ==
    /\ e.endDate # NoneDate
    /\ \E k \in 1..Len(e.startDate) :
        /\ k <= Len(e.endDate) + 1
        /\ \A j \in 1..(k - 1) : e.endDate[j] = e.startDate[j]
        /\ \/ k = Len(e.endDate) + 1
           \/ ord(e.endDate[k]) < ord(e.startDate[k])

\* C22 (ExperienceSpec): a create_profile or update_profile request by an
\* authenticated caller fails validation (422, nothing written) exactly when
\* its body holds an Experience entry whose endDate is present and lexically
\* smaller than its startDate, an entry without endDate never counts, and no
\* stored profile holds such an entry.
C22_EndDateNotBeforeStartDate ==
    [][/\ (request'.sent /\ out'.who # NoIdentity
            /\ out'.op \in {"create_profile", "update_profile"})
        => /\ out'.status = 422
                <=> \E k \in 1..Len(request'.experience) :
                        EndBeforeStart(request'.experience[k])
           /\ out'.status = 422
                => profiles' = profiles /\ inflight' = inflight
       /\ \A i \in 1..Len(profiles') : \A k \in 1..Len(profiles'[i].experience) :
            ~EndBeforeStart(profiles'[i].experience[k])]_vars

\* C22 witness: a stored profile holds an entry with both dates, written by an
\* update, the end not before the start and not equal to it.
C22_Witness ==
    /\ out.op = "update_profile" /\ out.status = 200
    /\ \E k \in 1..Len(profiles[out.profile].experience) :
        LET e == profiles[out.profile].experience[k]
        IN  /\ e.endDate # NoneDate /\ e.startDate # <<>>
            /\ e.endDate # e.startDate

\* C23 (SeqSpec): no step changes the userId or the organizationId of a stored
\* profile or the profileId of a stored resume, whatever keys the body of an
\* update carries; in particular no update_profile, update_resume_metadata or
\* delete_resume_metadata request does.
C23_OwnershipImmutable ==
    [][/\ \A i \in 1..Len(profiles) :
            /\ i <= Len(profiles')
            /\ profiles'[i].userId = profiles[i].userId
            /\ profiles'[i].organizationId = profiles[i].organizationId
       /\ \A i \in 1..Len(resumes) :
            /\ i <= Len(resumes')
            /\ resumes'[i].profileId = resumes[i].profileId]_vars

\* C23 witness: a member of the profile's organization, not its owner, has
\* updated the profile of a candidate who has a resume.
C23_Witness ==
    /\ out.op = "update_profile" /\ out.status = 200
    /\ out.who.role = "recruiter"
    /\ Str(profiles[out.profile].userId) # out.who.sub
    /\ profiles[out.profile].location # <<>>
    /\ \E i \in 1..Len(resumes) : resumes[i].profileId = out.profile

\* C24 (SeqSpec): the clearing step of create_resume_metadata and of
\* update_resume_metadata leaves every resume as it was except that isPrimary
\* may become false on active resumes of the request's profile other than the
\* resume being updated; it adds and removes no resume and writes no profile.
C24_ClearTouchesOnlyOtherActive ==
    [][\A r \in 1..NumReq :
        (inflight[r].pc = "unset_primaries" /\ inflight'[r].pc # "unset_primaries")
        => /\ profiles' = profiles
           /\ Len(resumes') = Len(resumes)
           /\ \A i \in 1..Len(resumes) :
                \/ resumes'[i] = resumes[i]
                \/ /\ resumes[i].profileId = inflight[r].profile
                   /\ resumes[i].isActive
                   /\ i # inflight[r].resume
                   /\ resumes'[i] = [resumes[i] EXCEPT !.isPrimary = FALSE]]_vars

\* C24 witness: the clearing step of an update has cleared the profile's
\* active primary and left the inactive primary resume of the same profile,
\* the one being updated, as it was.
C24_Witness ==
    \E r \in 1..NumReq :
        /\ inflight[r].op = "update_resume_metadata"
        /\ inflight[r].pc = "update_one"
        /\ inflight[r].marks /\ inflight[r].pre # {}
        /\ \E i \in 1..Len(resumes) :
            /\ resumes[i].profileId = inflight[r].profile
            /\ ~resumes[i].isActive /\ resumes[i].isPrimary

\* C25 (SeqSpec): a create_profile request whose body validates, made by an
\* authenticated caller whose role is not candidate, is answered 403 as a
\* denial whatever userId and organizationId it names, writes nothing and
\* leaves nothing in flight that a later step could insert.
C25_OnlyCandidatesCreateProfiles ==
    [][(request'.sent /\ out'.op = "create_profile"
            /\ out'.who # NoIdentity /\ out'.who.role # "candidate")
        => /\ out'.status = 403 /\ out'.granted = "no"
           /\ profiles' = profiles /\ resumes' = resumes
           /\ inflight' = inflight]_vars

\* C25 witness: a recruiter asked for a profile under their own user id, with
\* no profile stored for that user, and was denied.
C25_Witness ==
    /\ out.op = "create_profile" /\ out.status = 403
    /\ out.who # NoIdentity /\ out.who.role = "recruiter"
    /\ request.id = out.who.sub
    /\ ProfileOfUser(ObjectId(request.id)) = NoneId

====
